---- MODULE Spec2Model ----
(***************************************************************************)
(* HR data processing pipeline (scripts/data_processor.py) and the smoke   *)
(* test of its output (scripts/quick_test.py).                             *)
(*                                                                         *)
(* A DataFrame is a record [columns, rows]: columns is the sequence of     *)
(* column names, rows the sequence of rows, each row a function from the   *)
(* column names to cells.  A cell is <<>> (pandas NaN / missing) or <<v>>. *)
(* MonthlyIncome values are integers; wherever a median is taken the raw   *)
(* incomes of the model are multiples of 2000, so that the mean of the two *)
(* middle values is an integer and the integer division in median is       *)
(* exact.  Quantiles are carried multiplied by 4, which makes their linear *)
(* interpolation exact on integers.                                        *)
(***************************************************************************)
EXTENDS Integers, Sequences, FiniteSets, TLC

\* raw_file: the parsed content of input_path; csv_file, xlsx_file and
\* report_file: the files the run writes; error: the exception that ended the
\* run; pre: the dataset and the log as they were before the last stage ran.
VARIABLES pc, raw_file, df, original_shape, processing_log, csv_file, xlsx_file, report_file, error, pre

vars == <<pc, raw_file, df, original_shape, processing_log, csv_file, xlsx_file, report_file, error, pre>>

(***************************************************************************)
(* Bounds of the model.                                                    *)
(***************************************************************************)
\* Rows of a raw file that holds every expected column.
MaxRows == 4

\* Rows of a raw file that lacks some expected column.
MaxPartialRows == 2

\* Rows of the datasets the single stages are applied to.
MaxDedupRows == 4

MaxImputeRows == 4

MaxStdRows == 2

MaxAgeRows == 2

MaxIncomeRows == 4

(***************************************************************************)
(* Cells.                                                                  *)
(***************************************************************************)
NaN == <<>>

Some(v) == <<v>>

isnull(c) == c = NaN

Val(c) == c[1]

NoError == <<>>

output_path == "data/processed/hr_data_clean.csv"

ExpectedColumns == <<"Age", "Department", "Gender", "JobRole", "JobSatisfaction", "MonthlyIncome">>

Range(s) == {s[i] : i \in 1..Len(s)}

HasColumn(d, c) == c \in Range(d.columns)

(***************************************************************************)
(* Small helpers standing for pandas / numpy primitives.                   *)
(***************************************************************************)
RECURSIVE BoolIndex(_, _, _)
BoolIndex(rows, mask, i) ==
    IF i > Len(rows) THEN <<>>
    ELSE (IF mask[i] THEN <<rows[i]>> ELSE <<>>) \o BoolIndex(rows, mask, i + 1)

RECURSIVE Insert(_, _)
Insert(v, s) ==
    IF s = <<>> THEN <<v>>
    ELSE IF v <= Head(s) THEN <<v>> \o s
    ELSE <<Head(s)>> \o Insert(v, Tail(s))

RECURSIVE Sort(_)
Sort(s) == IF s = <<>> THEN <<>> ELSE Insert(Head(s), Sort(Tail(s)))

\* The non-missing values of column c, in row order (Series.dropna()).
RECURSIVE dropna(_, _)
dropna(rows, c) ==
    IF rows = <<>> THEN <<>>
    ELSE (IF isnull(Head(rows)[c]) THEN <<>> ELSE <<Val(Head(rows)[c])>>) \o dropna(Tail(rows), c)

isnull_sum(rows, c) == Cardinality({i \in 1..Len(rows) : isnull(rows[i][c])})

nunique(rows, c) == Cardinality({rows[i][c] : i \in 1..Len(rows)} \ {NaN})

RECURSIVE SeqSum(_)
SeqSum(s) == IF s = <<>> THEN 0 ELSE Head(s) + SeqSum(Tail(s))

\* num/den rounded to the nearest integer, ties to even (Python's format of
\* a float that holds the tie exactly); num >= 0, den > 0.
RoundHalfEven(num, den) ==
    LET q == num \div den
        r == num % den
    IN  IF 2 * r < den THEN q
        ELSE IF 2 * r > den THEN q + 1
        ELSE IF q % 2 = 0 THEN q ELSE q + 1

\* Series.median(): NaN when no value is left, else the middle value of the
\* sorted non-missing values, the mean of the two middle ones when even.
median(vals) ==
    LET s == Sort(vals)
        n == Len(s)
    IN  IF n = 0 THEN NaN
        ELSE IF n % 2 = 1 THEN Some(s[(n + 1) \div 2])
        ELSE Some((s[n \div 2] + s[n \div 2 + 1]) \div 2)

\* Series.quantile(k/4), linear interpolation, multiplied by 4; NaN when the
\* column holds no value.
quantile4(vals, k) ==
    LET s == Sort(vals)
        n == Len(s)
        h == (n - 1) * k
        lo == h \div 4
        fr == h % 4
    IN  IF n = 0 THEN NaN
        ELSE IF fr = 0 THEN Some(4 * s[lo + 1])
        ELSE Some(4 * s[lo + 1] + fr * (s[lo + 2] - s[lo + 1]))

\* Series.mode()[0]: the most frequent non-missing value, the smallest of
\* them on a tie; mode() is empty when every value is missing.
mode(vals) ==
    LET count(v) == Cardinality({i \in 1..Len(vals) : vals[i] = v})
        best == {v \in Range(vals) : \A w \in Range(vals) : count(w) <= count(v)}
    IN  IF vals = <<>> THEN NaN
        ELSE Some(CHOOSE v \in best : \A w \in best : v <= w)

\* A bin edge of pd.cut: a finite number or float('inf').
Edge(v) == [inf |-> FALSE, v |-> v]

InfEdge == [inf |-> TRUE, v |-> 0]

EdgeLess(a, b) == ~a.inf /\ (b.inf \/ a.v < b.v)

\* pd.cut refuses bins that do not increase or that repeat an edge.
BinsValid(bins) == \A i \in 1..(Len(bins) - 1) : EdgeLess(bins[i], bins[i + 1])

\* pd.cut(x, bins, labels), right=True: bin i is (bins[i], bins[i+1]].
cut(x, bins, labels) ==
    IF isnull(x) THEN NaN
    ELSE LET hit == {i \in 1..(Len(bins) - 1) :
                        /\ EdgeLess(bins[i], Edge(Val(x)))
                        /\ ~EdgeLess(bins[i + 1], Edge(Val(x)))}
         IN  IF hit = {} THEN NaN ELSE Some(labels[CHOOSE i \in hit : TRUE])

\* df[c] = values: the column is replaced, or added last when it is new.
SetColumn(d, c, values) ==
    [columns |-> IF HasColumn(d, c) THEN d.columns ELSE Append(d.columns, c),
     rows |-> [i \in 1..Len(d.rows) |->
                  [k \in DOMAIN d.rows[i] \cup {c} |-> IF k = c THEN values[i] ELSE d.rows[i][k]]]]

\* Series.replace(mapping): the mapping's keys are replaced, all else is kept.
replace(c, mapping) ==
    IF ~isnull(c) /\ Val(c) \in DOMAIN mapping THEN Some(mapping[Val(c)]) ELSE c

(***************************************************************************)
(* data_quality_assessment                                                 *)
(***************************************************************************)
\* DataFrame.duplicated(): row i repeats an earlier row (NaN equals NaN).
duplicated(rows) == [i \in 1..Len(rows) |-> \E j \in 1..(i - 1) : rows[j] = rows[i]]

duplicated_sum(rows) == Cardinality({i \in 1..Len(rows) : duplicated(rows)[i]})

RECURSIVE missing_entries(_, _)
missing_entries(d, cols) ==
    IF cols = <<>> THEN <<>>
    ELSE LET count == isnull_sum(d.rows, Head(cols))
         IN  (IF count > 0
              THEN <<<<"  -", Head(cols), count, "missing",
                       RoundHalfEven(count * 1000, Len(d.rows)), "permille">>>>
              ELSE <<>>) \o missing_entries(d, Tail(cols))

assessment_log(d) ==
    LET missing_cols == missing_entries(d, d.columns)
    IN  <<<<"Found", duplicated_sum(d.rows), "duplicate rows">>>>
        \o (IF missing_cols # <<>> THEN <<<<"Missing values found:">>>> \o missing_cols ELSE <<>>)

(***************************************************************************)
(* remove_duplicates                                                       *)
(***************************************************************************)
\* drop_duplicates with keep='last': the last occurrence of each row is kept.
drop_duplicates_keep_last(rows) ==
    BoolIndex(rows, [i \in 1..Len(rows) |-> ~\E j \in (i + 1)..Len(rows) : rows[j] = rows[i]], 1)

\* DataFrame.drop_duplicates(): self[~self.duplicated()], keep='first'.
drop_duplicates(rows) ==
    BoolIndex(rows, [i \in 1..Len(rows) |-> ~duplicated(rows)[i]], 1)

(***************************************************************************)
(* handle_missing_values                                                   *)
(***************************************************************************)
missing_income(d) == isnull_sum(d.rows, "MonthlyIncome")

\* The guard of line 62 left out: the fill runs whether or not a value is missing.
NeedsIncomeFill_always(d) == TRUE

NeedsIncomeFill(d) == missing_income(d) > 0

\* x.median() of the JobRole group of row i.
group_median(rows, i) ==
    median(dropna(BoolIndex(rows, [j \in 1..Len(rows) |-> rows[j]["JobRole"] = rows[i]["JobRole"]], 1),
                  "MonthlyIncome"))

\* The transform without its fillna: the column is left as it was.
transform_without_fill(rows) == [i \in 1..Len(rows) |-> rows[i]["MonthlyIncome"]]

\* groupby('JobRole')['MonthlyIncome'].transform(lambda x: x.fillna(x.median())):
\* groupby drops the rows whose key is missing (dropna=True), and transform
\* gives NaN for them; a group without any value has the median NaN, and
\* fillna(NaN) fills nothing.
transform_fillna_median(rows) ==
    [i \in 1..Len(rows) |->
        IF isnull(rows[i]["JobRole"]) THEN NaN
        ELSE IF isnull(rows[i]["MonthlyIncome"]) THEN group_median(rows, i)
        ELSE rows[i]["MonthlyIncome"]]

\* Lines 60-67.  The result is [df, log, error].
fill_income(d, lg) ==
    IF HasColumn(d, "MonthlyIncome") /\ NeedsIncomeFill(d)
    THEN IF ~HasColumn(d, "JobRole")
         THEN [df |-> d, log |-> lg, error |-> <<"KeyError", "JobRole">>]
         ELSE [df |-> SetColumn(d, "MonthlyIncome", transform_fillna_median(d.rows)),
               log |-> Append(lg, <<"Filled", missing_income(d),
                                    "missing MonthlyIncome values using job role median">>),
               error |-> NoError]
    ELSE [df |-> d, log |-> lg, error |-> NoError]

\* Lines 70-75.
fill_satisfaction(d, lg) ==
    IF HasColumn(d, "JobSatisfaction") /\ isnull_sum(d.rows, "JobSatisfaction") > 0
    THEN LET mode_satisfaction == mode(dropna(d.rows, "JobSatisfaction"))
         IN  IF isnull(mode_satisfaction)
             THEN [df |-> d, log |-> lg, error |-> <<"KeyError", "0">>]
             ELSE [df |-> SetColumn(d, "JobSatisfaction",
                              [i \in 1..Len(d.rows) |->
                                  IF isnull(d.rows[i]["JobSatisfaction"]) THEN mode_satisfaction
                                  ELSE d.rows[i]["JobSatisfaction"]]),
                   log |-> Append(lg, <<"Filled", isnull_sum(d.rows, "JobSatisfaction"),
                                        "missing JobSatisfaction values with mode",
                                        Val(mode_satisfaction)>>),
                   error |-> NoError]
    ELSE [df |-> d, log |-> lg, error |-> NoError]

handle_missing_values_result(d, lg) ==
    LET a == fill_income(d, lg)
    IN  IF a.error # NoError THEN a ELSE fill_satisfaction(a.df, a.log)

(***************************************************************************)
(* standardize_data                                                        *)
(***************************************************************************)
\* A table with a slip: one variant is mapped to another variant, not to the
\* canonical label.
dept_mapping_wrong_case ==
    [k \in {"SALES", "sales", "RESEARCH & DEVELOPMENT", "research & development",
            "HUMAN RESOURCES", "human resources"} |->
        CASE k \in {"SALES", "sales"} -> "Sales"
          [] k = "RESEARCH & DEVELOPMENT" -> "Research & Development"
          [] k = "research & development" -> "RESEARCH & DEVELOPMENT"
          [] OTHER -> "Human Resources"]

dept_mapping ==
    [k \in {"SALES", "sales", "RESEARCH & DEVELOPMENT", "research & development",
            "HUMAN RESOURCES", "human resources"} |->
        CASE k \in {"SALES", "sales"} -> "Sales"
          [] k \in {"RESEARCH & DEVELOPMENT", "research & development"} -> "Research & Development"
          [] OTHER -> "Human Resources"]

gender_mapping ==
    [k \in {"M", "F", "m", "f"} |-> IF k \in {"M", "m"} THEN "Male" ELSE "Female"]

standardize_department(d, lg) ==
    IF HasColumn(d, "Department")
    THEN [df |-> SetColumn(d, "Department",
                     [i \in 1..Len(d.rows) |-> replace(d.rows[i]["Department"], dept_mapping)]),
          log |-> Append(lg, <<"Standardized Department names">>)]
    ELSE [df |-> d, log |-> lg]

standardize_gender(d, lg) ==
    IF HasColumn(d, "Gender")
    THEN [df |-> SetColumn(d, "Gender",
                     [i \in 1..Len(d.rows) |-> replace(d.rows[i]["Gender"], gender_mapping)]),
          log |-> Append(lg, <<"Standardized Gender values">>)]
    ELSE [df |-> d, log |-> lg]

abs(v) == IF v < 0 THEN -v ELSE v

fix_negative_income(d, lg) ==
    LET negative_incomes ==
            Cardinality({i \in 1..Len(d.rows) :
                ~isnull(d.rows[i]["MonthlyIncome"]) /\ Val(d.rows[i]["MonthlyIncome"]) < 0})
    IN  IF HasColumn(d, "MonthlyIncome") /\ negative_incomes > 0
        THEN [df |-> SetColumn(d, "MonthlyIncome",
                         [i \in 1..Len(d.rows) |->
                             IF isnull(d.rows[i]["MonthlyIncome"]) THEN NaN
                             ELSE Some(abs(Val(d.rows[i]["MonthlyIncome"])))]),
              log |-> Append(lg, <<"Fixed", negative_incomes, "negative income values">>)]
        ELSE [df |-> d, log |-> lg]

standardize_data_result(d, lg) ==
    LET a == standardize_department(d, lg)
        b == standardize_gender(a.df, a.log)
        c == fix_negative_income(b.df, b.log)
    IN  [df |-> c.df, log |-> c.log, error |-> NoError]

(***************************************************************************)
(* create_derived_features                                                 *)
(***************************************************************************)
age_bins == <<Edge(0), Edge(30), Edge(40), Edge(50), Edge(100)>>

age_labels == <<"Under 30", "30-40", "40-50", "50+">>

income_labels == <<"Low", "Medium", "High", "Very High">>

derive_age_group(d, lg) ==
    IF HasColumn(d, "Age")
    THEN [df |-> SetColumn(d, "AgeGroup",
                     [i \in 1..Len(d.rows) |-> cut(d.rows[i]["Age"], age_bins, age_labels)]),
          log |-> Append(lg, <<"Created AgeGroup categories">>)]
    ELSE [df |-> d, log |-> lg]

\* Series.quantile([0.25, 0.5, 0.75]), each multiplied by 4.
income_quartiles(d) == [k \in 1..3 |-> quantile4(dropna(d.rows, "MonthlyIncome"), k)]

\* bins=[0, q25, q50, q75, inf], multiplied by 4.
income_bins(q) == <<Edge(0), Edge(Val(q[1])), Edge(Val(q[2])), Edge(Val(q[3])), InfEdge>>

derive_income_category(d, lg) ==
    IF HasColumn(d, "MonthlyIncome")
    THEN LET q == income_quartiles(d)
         IN  IF (\E k \in 1..3 : isnull(q[k])) \/ ~BinsValid(income_bins(q))
             THEN [df |-> d, log |-> lg, error |-> <<"ValueError", "bins">>]
             ELSE [df |-> SetColumn(d, "IncomeCategory",
                              [i \in 1..Len(d.rows) |->
                                  IF isnull(d.rows[i]["MonthlyIncome"]) THEN NaN
                                  ELSE cut(Some(4 * Val(d.rows[i]["MonthlyIncome"])),
                                           income_bins(q), income_labels)]),
                   log |-> Append(lg, <<"Created IncomeCategory based on quartiles">>),
                   error |-> NoError]
    ELSE [df |-> d, log |-> lg, error |-> NoError]

create_derived_features_result(d, lg) ==
    LET a == derive_age_group(d, lg)
    IN  derive_income_category(a.df, a.log)

(***************************************************************************)
(* save_processed_data                                                     *)
(***************************************************************************)
NumericColumns == {"Age", "JobSatisfaction", "MonthlyIncome"}

\* One field of the CSV text: a missing value is the empty field.
csv_field(c, col) ==
    IF isnull(c) THEN ""
    ELSE IF col \in NumericColumns THEN ToString(Val(c))
    ELSE Val(c)

\* DataFrame.to_csv(index=False): the header line, then one line per row.
to_csv(d) ==
    <<d.columns>> \o
    [i \in 1..Len(d.rows) |-> [k \in 1..Len(d.columns) |-> csv_field(d.rows[i][d.columns[k]], d.columns[k])]]

\* Series.mean() of column c as num/den, formatted with `digits` decimals:
\* the value times 10^digits, rounded; "nan" when no value is left.
format_mean(d, c, scale) ==
    LET vals == dropna(d.rows, c)
    IN  IF vals = <<>> THEN <<"nan">>
        ELSE <<RoundHalfEven(SeqSum(vals) * scale, Len(vals))>>

summary_df(d) ==
    [TotalRecords |-> <<Len(d.rows)>>,
     TotalColumns |-> <<Len(d.columns)>>,
     Departments |-> IF HasColumn(d, "Department") THEN <<nunique(d.rows, "Department")>> ELSE <<"N/A">>,
     JobRoles |-> IF HasColumn(d, "JobRole") THEN <<nunique(d.rows, "JobRole")>> ELSE <<"N/A">>,
     AvgAge |-> IF HasColumn(d, "Age") THEN format_mean(d, "Age", 10) ELSE <<"N/A">>,
     AvgMonthlyIncome |-> IF HasColumn(d, "MonthlyIncome") THEN format_mean(d, "MonthlyIncome", 1)
                          ELSE <<"N/A">>]

(***************************************************************************)
(* generate_processing_report                                              *)
(***************************************************************************)
\* The enumeration started one entry late: the first entry of the log is skipped.
report_steps_skip_first(lg) == [i \in 1..(Len(lg) - 1) |-> <<i, lg[i + 1]>>]

\* enumerate(self.processing_log, 1): "{i}. {step}".
report_steps(lg) == [i \in 1..Len(lg) |-> <<i, lg[i]>>]

\* The report up to its PROCESSING STEPS section.  The retention line
\* divides by the original row count: with no original row the division
\* raises, and the file keeps what was written before it.
report_result(d, shape, lg) ==
    IF shape[1] = 0
    THEN [file |-> [original |-> shape, final |-> <<Len(d.rows), Len(d.columns)>>,
                    retention |-> NaN, steps |-> <<>>],
          error |-> <<"ZeroDivisionError", "retention">>]
    ELSE [file |-> [original |-> shape, final |-> <<Len(d.rows), Len(d.columns)>>,
                    retention |-> Some(RoundHalfEven(Len(d.rows) * 1000, shape[1])),
                    steps |-> report_steps(lg)],
          error |-> NoError]

(***************************************************************************)
(* quick_verification (scripts/quick_test.py)                              *)
(***************************************************************************)
\* pd.read_csv of the cleaned file: the header gives the columns, an empty
\* field is a missing value.
read_csv(file) ==
    [columns |-> file[1],
     rows |-> [i \in 1..(Len(file) - 1) |->
                  [c \in Range(file[1]) |->
                      LET k == CHOOSE j \in 1..Len(file[1]) : file[1][j] = c
                      IN  IF file[i + 1][k] = "" THEN NaN ELSE Some(file[i + 1][k])]]]

\* "No duplicates: {df.duplicated().sum() == 0}"
quick_no_duplicates(file) == duplicated_sum(read_csv(file).rows) = 0

(***************************************************************************)
(* Raw files.                                                              *)
(***************************************************************************)
ColumnSet == Range(ExpectedColumns)

BaseRow ==
    [Age |-> Some(35), Department |-> Some("Sales"), Gender |-> Some("Male"),
     JobRole |-> Some("Manager"), JobSatisfaction |-> Some(3), MonthlyIncome |-> Some(2000)]

\* The DataFrame read from a file with the columns cs and the rows f.
Frame(cs, f) ==
    [columns |-> SelectSeq(ExpectedColumns, LAMBDA c : c \in cs),
     rows |-> [i \in 1..Len(f) |-> [c \in cs |-> f[i][c]]]]

RawRows ==
    {[BaseRow EXCEPT !.MonthlyIncome = m, !.JobRole = j] :
        m \in {NaN, Some(2000), Some(6000)}, j \in {Some("Manager"), Some("Analyst")}}
    \cup {[BaseRow EXCEPT !.MonthlyIncome = Some(-2000)],
          [BaseRow EXCEPT !.JobRole = NaN],
          [BaseRow EXCEPT !.Department = Some("SALES"), !.Gender = Some("M")],
          [BaseRow EXCEPT !.JobSatisfaction = NaN]}

\* file holds some of the column sets and at most n rows, taken from rows.
IsFile(file, colsets, rows, n) ==
    \E cs \in colsets, k \in 0..n : \E f \in [1..k -> rows] : file = Frame(cs, f)

\* The files read_csv parses: every expected column, or any subset of them
\* that is not empty.
PartialColumnSets == (SUBSET ColumnSet) \ {ColumnSet, {}}

IsRawFile(file) ==
    \/ IsFile(file, {ColumnSet}, RawRows, MaxRows)
    \/ IsFile(file, PartialColumnSets, RawRows, MaxPartialRows)

NoFile == <<>>

NoFrame == [columns |-> <<>>, rows |-> <<>>]

(***************************************************************************)
(* The pipeline of main(): each stage runs once, in order; an exception    *)
(* ends the run.                                                           *)
(***************************************************************************)
Init ==
    /\ pc = "load_data"
    /\ IsRawFile(raw_file)
    /\ df = NoFrame
    /\ original_shape = <<0, 0>>
    /\ processing_log = <<>>
    /\ csv_file = NoFile
    /\ xlsx_file = NoFile
    /\ report_file = NoFile
    /\ error = NoError
    /\ pre = [df |-> NoFrame, log |-> <<>>]

\* A stage's effect on the dataset and the log; `next` is where the caller
\* continues when the stage returns.
Apply(res, next) ==
    /\ pre' = [df |-> df, log |-> processing_log]
    /\ df' = res.df
    /\ processing_log' = res.log
    /\ error' = res.error
    /\ pc' = IF res.error # NoError THEN "failed" ELSE next

load_data_result(file, lg) ==
    [df |-> file,
     log |-> Append(lg, <<"Loaded data:", Len(file.rows), "rows,", Len(file.columns), "columns">>),
     error |-> NoError]

load_data ==
    /\ pc = "load_data"
    /\ Apply(load_data_result(raw_file, processing_log), "data_quality_assessment")
    /\ original_shape' = <<Len(raw_file.rows), Len(raw_file.columns)>>
    /\ UNCHANGED <<raw_file, csv_file, xlsx_file, report_file>>

data_quality_assessment_result(d, lg) ==
    [df |-> d, log |-> lg \o assessment_log(d), error |-> NoError]

data_quality_assessment ==
    /\ pc = "data_quality_assessment"
    /\ Apply(data_quality_assessment_result(df, processing_log), "remove_duplicates")
    /\ UNCHANGED <<raw_file, original_shape, csv_file, xlsx_file, report_file>>

remove_duplicates_result(d, lg) ==
    LET initial_count == Len(d.rows)
        kept == drop_duplicates(d.rows)
        removed == initial_count - Len(kept)
    IN  [df |-> [d EXCEPT !.rows = kept],
         log |-> Append(lg, <<"Removed", removed, "duplicate rows">>),
         error |-> NoError]

remove_duplicates ==
    /\ pc = "remove_duplicates"
    /\ Apply(remove_duplicates_result(df, processing_log), "handle_missing_values")
    /\ UNCHANGED <<raw_file, original_shape, csv_file, xlsx_file, report_file>>

handle_missing_values ==
    /\ pc = "handle_missing_values"
    /\ Apply(handle_missing_values_result(df, processing_log), "standardize_data")
    /\ UNCHANGED <<raw_file, original_shape, csv_file, xlsx_file, report_file>>

standardize_data ==
    /\ pc = "standardize_data"
    /\ Apply(standardize_data_result(df, processing_log), "create_derived_features")
    /\ UNCHANGED <<raw_file, original_shape, csv_file, xlsx_file, report_file>>

create_derived_features ==
    /\ pc = "create_derived_features"
    /\ Apply(create_derived_features_result(df, processing_log), "save_processed_data")
    /\ UNCHANGED <<raw_file, original_shape, csv_file, xlsx_file, report_file>>

save_processed_data_result(d, lg) ==
    [df |-> d, log |-> Append(lg, <<"Cleaned data saved to", output_path>>), error |-> NoError]

save_processed_data ==
    /\ pc = "save_processed_data"
    /\ csv_file' = to_csv(df)
    /\ xlsx_file' = [CleanData |-> df, Summary |-> summary_df(df)]
    /\ Apply(save_processed_data_result(df, processing_log), "generate_processing_report")
    /\ UNCHANGED <<raw_file, original_shape, report_file>>

generate_processing_report ==
    /\ pc = "generate_processing_report"
    /\ LET r == report_result(df, original_shape, processing_log)
       IN  /\ report_file' = r.file
           /\ Apply([df |-> df, log |-> processing_log, error |-> r.error], "done")
    /\ UNCHANGED <<raw_file, original_shape, csv_file, xlsx_file>>

Next ==
    \/ load_data
    \/ data_quality_assessment
    \/ remove_duplicates
    \/ handle_missing_values
    \/ standardize_data
    \/ create_derived_features
    \/ save_processed_data
    \/ generate_processing_report

Spec == Init /\ [][Next]_vars

(***************************************************************************)
(* The single stages.  Each specification below starts from a processor    *)
(* that has loaded a file (the state load_data leaves) and calls one stage *)
(* method, at most twice.                                                  *)
(***************************************************************************)
Loaded(colsets, rows, n) ==
    /\ pc = "ready"
    /\ IsFile(raw_file, colsets, rows, n)
    /\ df = raw_file
    /\ original_shape = <<Len(raw_file.rows), Len(raw_file.columns)>>
    /\ processing_log = load_data_result(raw_file, <<>>).log
    /\ csv_file = NoFile
    /\ xlsx_file = NoFile
    /\ report_file = NoFile
    /\ error = NoError
    /\ pre = [df |-> NoFrame, log |-> <<>>]

Call(res) ==
    /\ pc \in {"ready", "called1"}
    /\ Apply(res, IF pc = "ready" THEN "called1" ELSE "called2")
    /\ UNCHANGED <<raw_file, original_shape, csv_file, xlsx_file, report_file>>

\* The first call has returned or raised.
FirstCallOver == pc = "called1" \/ (pc = "failed" /\ Len(pre.log) = 1)

DedupRows ==
    {[BaseRow EXCEPT !.MonthlyIncome = m, !.JobRole = j] :
        m \in {NaN, Some(2000)}, j \in {Some("Manager"), Some("Analyst")}}

call_remove_duplicates == Call(remove_duplicates_result(df, processing_log))

SpecDedup == Loaded({ColumnSet}, DedupRows, MaxDedupRows) /\ [][call_remove_duplicates]_vars

ImputeRows ==
    {[BaseRow EXCEPT !.MonthlyIncome = m, !.JobRole = j] :
        m \in {NaN, Some(2000), Some(6000)}, j \in {NaN, Some("Manager"), Some("Analyst")}}
    \cup {[BaseRow EXCEPT !.JobSatisfaction = NaN], [BaseRow EXCEPT !.JobSatisfaction = Some(4)]}

ImputeColumnSets ==
    {ColumnSet, ColumnSet \ {"JobRole"}, ColumnSet \ {"MonthlyIncome"}, ColumnSet \ {"JobSatisfaction"}}

call_handle_missing_values == Call(handle_missing_values_result(df, processing_log))

SpecImpute == Loaded(ImputeColumnSets, ImputeRows, MaxImputeRows) /\ [][call_handle_missing_values]_vars

StdRows ==
    {[BaseRow EXCEPT !.Department = x] :
        x \in {NaN, Some("SALES"), Some("sales"), Some("RESEARCH & DEVELOPMENT"),
               Some("research & development"), Some("HUMAN RESOURCES"), Some("human resources"),
               Some("Sales"), Some("Engineering")}}
    \cup {[BaseRow EXCEPT !.Gender = x] :
            x \in {NaN, Some("M"), Some("m"), Some("F"), Some("f"), Some("Female"), Some("Other")}}
    \cup {[BaseRow EXCEPT !.MonthlyIncome = Some(-2000)]}

StdColumnSets == {ColumnSet, ColumnSet \ {"Department"}, ColumnSet \ {"Gender"}}

call_standardize_data == Call(standardize_data_result(df, processing_log))

SpecStandardize == Loaded(StdColumnSets, StdRows, MaxStdRows) /\ [][call_standardize_data]_vars

AgeRows ==
    {[BaseRow EXCEPT !.Age = a] :
        a \in {NaN, Some(-1), Some(0), Some(29), Some(30), Some(40), Some(50), Some(100), Some(101)}}

IncomeRows ==
    {[BaseRow EXCEPT !.MonthlyIncome = m] :
        m \in {NaN, Some(0), Some(1000), Some(2000), Some(3000), Some(4000)}}

InitDerive ==
    \/ Loaded({ColumnSet, ColumnSet \ {"MonthlyIncome"}}, AgeRows, MaxAgeRows)
    \/ Loaded({ColumnSet, ColumnSet \ {"Age"}}, IncomeRows, MaxIncomeRows)

call_create_derived_features == Call(create_derived_features_result(df, processing_log))

SpecDerive == InitDerive /\ [][call_create_derived_features]_vars

(***************************************************************************)
(* Properties.                                                             *)
(***************************************************************************)
Last(s) == s[Len(s)]

IsPrefix(s, t) == Len(s) <= Len(t) /\ \A i \in 1..Len(s) : t[i] = s[i]

Column(d, c) == [i \in 1..Len(d.rows) |-> d.rows[i][c]]

\* C1: create_derived_features gives every age a the AgeGroup of the
\* half-open bins [0,30), [30,40), [40,50), [50,100]: 'Under 30' for
\* 0 <= a < 30, '30-40' for 30 <= a < 40, '40-50' for 40 <= a < 50, '50+' for
\* 50 <= a <= 100, and a missing AgeGroup for a < 0 or a > 100.
HalfOpenAgeGroup(a) ==
    IF a < 0 \/ a > 100 THEN NaN
    ELSE IF a < 30 THEN Some("Under 30")
    ELSE IF a < 40 THEN Some("30-40")
    ELSE IF a < 50 THEN Some("40-50")
    ELSE Some("50+")

C1_AgeGroupHalfOpenBins ==
    (FirstCallOver /\ HasColumn(pre.df, "Age")) =>
        \A i \in 1..Len(df.rows) :
            ~isnull(pre.df.rows[i]["Age"]) =>
                df.rows[i]["AgeGroup"] = HalfOpenAgeGroup(Val(pre.df.rows[i]["Age"]))

\* C2: when an expected column is absent from the loaded dataset, no stage
\* after Load raises an error for that column (a KeyError naming it).
C2_AbsentColumnNeverRaises ==
    pc # "load_data" =>
        \A c \in ColumnSet \ Range(raw_file.columns) : error # <<"KeyError", c>>

RECURSIVE FirstOccurrences(_, _)
FirstOccurrences(rows, seen) ==
    IF rows = <<>> THEN <<>>
    ELSE IF Head(rows) \in seen THEN FirstOccurrences(Tail(rows), seen)
    ELSE <<Head(rows)>> \o FirstOccurrences(Tail(rows), seen \cup {Head(rows)})

C4_DedupKeepsFirstAndIsIdempotent ==
    /\ pc = "called1" =>
          /\ df.rows = FirstOccurrences(pre.df.rows, {})
          /\ df.columns = pre.df.columns
          /\ Len(df.rows) <= Len(pre.df.rows)
          /\ Last(processing_log) = <<"Removed", Len(pre.df.rows) - Len(df.rows), "duplicate rows">>
    /\ pc = "called2" =>
          /\ df = pre.df
          /\ Last(processing_log) = <<"Removed", 0, "duplicate rows">>

C4_Witness ==
    /\ pc = "called2"
    /\ processing_log[2][2] >= 2
    /\ Len(df.rows) >= 2
    /\ raw_file.rows[1] # raw_file.rows[2]

\* C5: when no MonthlyIncome value is missing, handle_missing_values leaves
\* the MonthlyIncome column as it was, row for row, and appends no
\* 'Filled ... MonthlyIncome' entry to the processing log.
IsIncomeFillEntry(e) == e[1] = "Filled" /\ e[3] = "missing MonthlyIncome values using job role median"

C5_ImputeNoOpWhenNothingMissing ==
    (FirstCallOver /\ HasColumn(pre.df, "MonthlyIncome") /\ missing_income(pre.df) = 0) =>
        /\ df.columns = pre.df.columns
        /\ Column(df, "MonthlyIncome") = Column(pre.df, "MonthlyIncome")
        /\ IsPrefix(pre.log, processing_log)
        /\ \A k \in (Len(pre.log) + 1)..Len(processing_log) : ~IsIncomeFillEntry(processing_log[k])

C5_Witness ==
    /\ pc = "called1"
    /\ HasColumn(pre.df, "MonthlyIncome")
    /\ missing_income(pre.df) = 0
    /\ Len(df.rows) >= 2
    /\ HasColumn(pre.df, "JobRole")
    /\ \E i \in 1..Len(df.rows) : isnull(df.rows[i]["JobRole"])
    /\ Len(processing_log) > Len(pre.log)

\* C9: when a MonthlyIncome value is missing, after handle_missing_values a
\* row whose value was not missing keeps it, and a row whose value was
\* missing has the median of the non-missing MonthlyIncome values of the
\* rows with the same JobRole, or stays missing when there is none.
\* v is the value at position k (from 0) of the sorted values xs.
AtRank(xs, v, k) ==
    /\ Cardinality({j \in DOMAIN xs : xs[j] < v}) <= k
    /\ k < Cardinality({j \in DOMAIN xs : xs[j] <= v})

\* m is the median of the values xs (not empty).
IsMedianOf(m, xs) ==
    \E lo \in Range(xs), hi \in Range(xs) :
        /\ AtRank(xs, lo, (Len(xs) - 1) \div 2)
        /\ AtRank(xs, hi, Len(xs) \div 2)
        /\ 2 * m = lo + hi

C9_ImputeMatchesGroupMedian ==
    (/\ FirstCallOver
     /\ HasColumn(pre.df, "MonthlyIncome")
     /\ HasColumn(pre.df, "JobRole")
     /\ missing_income(pre.df) > 0) =>
        \A i \in 1..Len(df.rows) :
            LET before == pre.df.rows[i]
                group == dropna(SelectSeq(pre.df.rows, LAMBDA r : r["JobRole"] = before["JobRole"]),
                                "MonthlyIncome")
            IN  IF ~isnull(before["MonthlyIncome"])
                THEN df.rows[i]["MonthlyIncome"] = before["MonthlyIncome"]
                ELSE IF isnull(before["JobRole"])
                THEN TRUE
                ELSE IF group = <<>>
                THEN isnull(df.rows[i]["MonthlyIncome"])
                ELSE /\ ~isnull(df.rows[i]["MonthlyIncome"])
                     /\ IsMedianOf(Val(df.rows[i]["MonthlyIncome"]), group)

\* C6: standardize_data maps every variant spelling of the Department table
\* and of the Gender table to its canonical label and leaves every other
\* value unchanged; applying the stage twice gives the same Department and
\* Gender columns as applying it once.
CanonicalDepartment(c) ==
    IF c \in {Some("SALES"), Some("sales")} THEN Some("Sales")
    ELSE IF c \in {Some("RESEARCH & DEVELOPMENT"), Some("research & development")}
    THEN Some("Research & Development")
    ELSE IF c \in {Some("HUMAN RESOURCES"), Some("human resources")} THEN Some("Human Resources")
    ELSE c

CanonicalGender(c) ==
    IF c \in {Some("M"), Some("m")} THEN Some("Male")
    ELSE IF c \in {Some("F"), Some("f")} THEN Some("Female")
    ELSE c

C6_StandardizeCanonicalAndIdempotent ==
    /\ pc = "called1" =>
          /\ Len(df.rows) = Len(pre.df.rows)
          /\ df.columns = pre.df.columns
          /\ \A i \in 1..Len(df.rows) :
                /\ HasColumn(df, "Department") =>
                      df.rows[i]["Department"] = CanonicalDepartment(pre.df.rows[i]["Department"])
                /\ HasColumn(df, "Gender") =>
                      df.rows[i]["Gender"] = CanonicalGender(pre.df.rows[i]["Gender"])
    /\ pc = "called2" =>
          /\ HasColumn(df, "Department") => Column(df, "Department") = Column(pre.df, "Department")
          /\ HasColumn(df, "Gender") => Column(df, "Gender") = Column(pre.df, "Gender")

C6_Witness ==
    /\ pc = "called2"
    /\ Len(df.rows) = 2
    /\ HasColumn(df, "Department")
    /\ HasColumn(df, "Gender")
    /\ raw_file.rows[1]["Department"] = Some("RESEARCH & DEVELOPMENT")
    /\ raw_file.rows[2]["Gender"] = Some("f")
    /\ df.rows[1]["Department"] = Some("Research & Development")
    /\ df.rows[2]["Gender"] = Some("Female")

\* C7: create_derived_features raises no error and gives every record with
\* a non-missing, non-negative MonthlyIncome exactly one of the labels Low,
\* Medium, High, Very High, whatever the column of two or more records holds
\* (0, equal values).
C7_EveryIncomeGetsQuartileLabel ==
    (/\ FirstCallOver
     /\ HasColumn(pre.df, "MonthlyIncome")
     /\ Len(pre.df.rows) >= 2
     /\ \A i \in 1..Len(pre.df.rows) :
           /\ ~isnull(pre.df.rows[i]["MonthlyIncome"])
           /\ Val(pre.df.rows[i]["MonthlyIncome"]) >= 0) =>
        /\ error = NoError
        /\ \A i \in 1..Len(df.rows) :
              df.rows[i]["IncomeCategory"] \in {Some(income_labels[k]) : k \in 1..4}

\* C8: the processing log is append-only and in stage order: a step only
\* appends entries, the entries of the stages appear in the order the
\* stages ran, so 'Removed N duplicate rows' precedes every 'Filled M
\* missing MonthlyIncome' entry, and generate_processing_report writes all
\* entries in that order and leaves the log as it was.
StageOf(e) ==
    CASE e[1] = "Loaded data:" -> 1
      [] e[1] \in {"Found", "Missing values found:", "  -"} -> 2
      [] e[1] = "Removed" -> 3
      [] e[1] = "Filled" -> 4
      [] e[1] \in {"Standardized Department names", "Standardized Gender values", "Fixed"} -> 5
      [] e[1] \in {"Created AgeGroup categories", "Created IncomeCategory based on quartiles"} -> 6
      [] e[1] = "Cleaned data saved to" -> 7
      [] OTHER -> 0

LogInStageOrder ==
    /\ \A i \in 1..Len(processing_log) : StageOf(processing_log[i]) > 0
    /\ \A i \in 1..(Len(processing_log) - 1) :
          StageOf(processing_log[i]) <= StageOf(processing_log[i + 1])
    /\ \A i, j \in 1..Len(processing_log) :
          (processing_log[i][1] = "Removed" /\ processing_log[j][1] = "Filled") => i < j

ReportIsTheLog ==
    pc = "done" =>
        /\ pre.log = processing_log
        /\ Len(report_file.steps) = Len(processing_log)
        /\ \A i \in 1..Len(processing_log) : report_file.steps[i] = <<i, processing_log[i]>>

C8_LogAppendOnlyInStageOrder ==
    /\ [][IsPrefix(processing_log, processing_log')]_vars
    /\ [](LogInStageOrder /\ ReportIsTheLog)

C8_Witness ==
    /\ pc = "done"
    /\ \E i, j \in 1..Len(processing_log) :
          /\ i < j
          /\ processing_log[i][1] = "Removed"
          /\ processing_log[i][2] > 0
          /\ IsIncomeFillEntry(processing_log[j])
    /\ Len(report_file.steps) >= 8

\* C10: the cleaned dataset written at the end of the main() pipeline holds
\* no two rows equal in every column: the 'No duplicates' check of
\* quick_verification is True after every run.
C10_CleanFileHasNoDuplicates ==
    pc = "done" => quick_no_duplicates(csv_file)

====
